---- MODULE Spec2Model ----
(***************************************************************************)
(* Model of the Discord bot of src/discordjs/index.js: the CommandSyncer   *)
(* (syncCommands, createCommandsIndividually) and the TopGGIntegration     *)
(* (postCommandsToTopGG, startPeriodicUpdates, stopPeriodicUpdates).       *)
(* Every await of the source is a point where an action ends: the request  *)
(* is issued by one action and its answer is consumed by the next one.     *)
(***************************************************************************)
EXTENDS Integers, Sequences, FiniteSets, TLC

\* ------------------------------------------------------------------ bounds
\* Longest command list registered in one scope before the sync starts.
MaxExisting == 2
\* Most commands the platform answers to the fetch of a publish cycle.
MaxFetched == 2
\* Most invocations of postCommandsToTopGG in one behaviour.
MaxCycles == 2
\* Most calls of startPeriodicUpdates and stopPeriodicUpdates in one behaviour.
MaxTimerCalls == 3
\* Most options at one level of an option tree given to the option converter.
MaxOptions == 2

\* ------------------------------------------------------- platform commands
\* ApplicationCommandType of discord.js
ChatInput == 1
UserContext == 2
MessageContext == 3
PrimaryEntryPoint == 4

\* guildId = null (the default parameter of syncCommands)
NoGuild == "null"
GuildIds == {NoGuild, "guild1"}
Scopes == {"global", "guild1"}

\* Routes.applicationCommands(appId) / Routes.applicationGuildCommands(appId, guildId)
Route(g) == IF g = NoGuild THEN "global" ELSE g

\* Commands some other party registered in a scope before the bot starts.
ExistingPool ==
    { [name |-> "ping",   type |-> ChatInput,         description |-> "old ping"],
      [name |-> "info",   type |-> ChatInput,         description |-> "old info"],
      [name |-> "launch", type |-> PrimaryEntryPoint, description |-> "Launch the activity"],
      [name |-> "help",   type |-> ChatInput,         description |-> "Show help"],
      [name |-> "ping",   type |-> UserContext,       description |-> ""] }

\* The platform keeps (name, type) unique inside one scope.
UniqueKeys(s) ==
    \A i, j \in 1..Len(s) :
        (s[i].name = s[j].name /\ s[i].type = s[j].type) => i = j

ExistingLists ==
    { s \in UNION { [1..n -> ExistingPool] : n \in 0..MaxExisting } : UniqueKeys(s) }

\* newCommands of syncCommands / commands of createCommandsIndividually, after toJSON()
newCommands ==
    << [name |-> "ping", type |-> ChatInput, description |-> "Check bot latency"],
       [name |-> "info", type |-> ChatInput, description |-> "Get bot information"] >>

\* Error messages are token sequences; String.prototype.includes is token membership.
EntryPointToken == "Entry Point"
AlreadyExistsToken == "already exists"
BulkErrorMessages ==
    { <<"Cannot remove", EntryPointToken, "command in bulk update">>,
      <<"Missing Access">> }
CreateErrorMessages ==
    { <<"Command", AlreadyExistsToken>>,
      <<"Missing Access">> }
FetchErrorMessages == { <<"Missing Access">> }
NoMessage == << >>

Includes(msg, token) == \E i \in 1..Len(msg) : msg[i] = token

\* ------------------------------------------------------------ sync helpers
\* Array.prototype.findIndex(cmd => cmd.name === name): first match, 0 when none (JS -1)
FindIndex(all, name) ==
    IF \E i \in 1..Len(all) : all[i].name = name
    THEN CHOOSE i \in 1..Len(all) :
            /\ all[i].name = name
            /\ \A j \in 1..(i - 1) : all[j].name # name
    ELSE 0

\* MergeOne without the lookup: the desired command is always pushed.
MergeOneAlwaysPush(all, newCmd) == Append(all, newCmd)

\* One iteration of the merge loop: replace at the found index, else push.
MergeOne(all, newCmd) ==
    LET existingIndex == FindIndex(all, newCmd.name)
    IN  IF existingIndex >= 1
        THEN [all EXCEPT ![existingIndex] = newCmd]
        ELSE Append(all, newCmd)

RECURSIVE MergeFrom(_, _, _)
MergeFrom(all, news, k) ==
    IF k > Len(news) THEN all
    ELSE MergeFrom(MergeOne(all, news[k]), news, k + 1)

\* allCommands = [...existingCommands] followed by the loop over newCommands
MergeCommands(existing) == MergeFrom(existing, newCommands, 1)

\* Answer of the platform to a successful bulk overwrite: the scope now
\* holds exactly the body, and the answer lists it.
PlatformBulkOverwrite(list, body) == body

\* Answer of the platform to a successful single create: the command is
\* registered; a command of the same name and type is overwritten.
PlatformCreate(list, cmd) ==
    IF \E i \in 1..Len(list) : list[i].name = cmd.name /\ list[i].type = cmd.type
    THEN LET i == CHOOSE i \in 1..Len(list) :
                      list[i].name = cmd.name /\ list[i].type = cmd.type
         IN  [list EXCEPT ![i] = cmd]
    ELSE Append(list, cmd)

\* ------------------------------------------------------- publish helpers
Has(r, field) == field \in DOMAIN r
\* JS truthiness of a string property: absent (undefined/null) and "" are falsy
Truthy(r, field) == Has(r, field) /\ r[field] # ""
\* JS truthiness of an array property with .length > 0
NonEmpty(r, field) == Has(r, field) /\ Len(r[field]) > 0

\* client.application.id
ApplicationId == "app"
\* null, the result of a failed conversion
Null == [null |-> TRUE]

\* convertOptionToTopGGFormat copying the sub-options instead of converting them.
convertOptionCopiesSubOptions(option) ==
    LET optionData ==
            [name |-> option.name,
             description |-> IF Truthy(option, "description")
                             THEN option.description ELSE "Parameter",
             type |-> option.type,
             required |-> IF Has(option, "required") THEN option.required ELSE FALSE]
        withChoices ==
            IF NonEmpty(option, "choices")
            THEN ("choices" :> option.choices) @@ optionData
            ELSE optionData
    IN  IF NonEmpty(option, "options")
        THEN ("options" :> option.options) @@ withChoices
        ELSE withChoices

RECURSIVE convertOptionToTopGGFormat(_)
convertOptionToTopGGFormat(option) ==
    LET optionData ==
            [name |-> option.name,
             description |-> IF Truthy(option, "description")
                             THEN option.description ELSE "Parameter",
             type |-> option.type,
             required |-> IF Has(option, "required") THEN option.required ELSE FALSE]
        withChoices ==
            IF NonEmpty(option, "choices")
            THEN ("choices" :> option.choices) @@ optionData
            ELSE optionData
    IN  IF NonEmpty(option, "options")
        THEN ("options" :> [i \in 1..Len(option.options) |->
                               convertOptionToTopGGFormat(option.options[i])])
             @@ withChoices
        ELSE withChoices

\* command.defaultMemberPermissions is null (field absent) or a permissions
\* bitfield object, which is truthy whatever its bits; toString() renders it
PermissionsToString(permissions) == ToString(permissions.bitfield)

\* ConvertedCommand testing the bits instead of the object: no permissions
\* field for the bitmask 0.
ConvertedCommandDropsZeroPermissions(command) ==
    LET commandData ==
            [id |-> command.id, application_id |-> ApplicationId,
             name |-> command.name, version |-> "1"]
        typed ==
            IF command.type = UserContext \/ command.type = MessageContext
            THEN ("type" :> command.type) @@ ("description" :> "") @@ commandData
            ELSE LET chat == ("type" :> ChatInput)
                             @@ ("description" :> IF Truthy(command, "description")
                                                  THEN command.description
                                                  ELSE "No description")
                             @@ commandData
                 IN  IF NonEmpty(command, "options")
                     THEN ("options" :> [i \in 1..Len(command.options) |->
                                  convertOptionToTopGGFormat(command.options[i])])
                          @@ chat
                     ELSE chat
    IN  IF Has(command, "defaultMemberPermissions")
           /\ command.defaultMemberPermissions.bitfield # 0
        THEN ("default_member_permissions" :>
                 PermissionsToString(command.defaultMemberPermissions)) @@ typed
        ELSE typed

\* the body of the try block of convertCommandToTopGGFormat
ConvertedCommand(command) ==
    LET commandData ==
            [id |-> command.id, application_id |-> ApplicationId,
             name |-> command.name, version |-> "1"]
        typed ==
            IF command.type = UserContext \/ command.type = MessageContext
            THEN ("type" :> command.type) @@ ("description" :> "") @@ commandData
            ELSE LET chat == ("type" :> ChatInput)
                             @@ ("description" :> IF Truthy(command, "description")
                                                  THEN command.description
                                                  ELSE "No description")
                             @@ commandData
                 IN  IF NonEmpty(command, "options")
                     THEN ("options" :> [i \in 1..Len(command.options) |->
                                  convertOptionToTopGGFormat(command.options[i])])
                          @@ chat
                     ELSE chat
    IN  IF Has(command, "defaultMemberPermissions")
        THEN ("default_member_permissions" :>
                 PermissionsToString(command.defaultMemberPermissions)) @@ typed
        ELSE typed

\* A command whose properties raise when read (field raises) makes the try
\* block throw; the catch logs and returns null.
convertCommandToTopGGFormat(command) ==
    IF Has(command, "raises") THEN Null ELSE ConvertedCommand(command)

\* ConvertFrom without the isolation of a failure: the first command that
\* fails to convert ends the loop.
RECURSIVE ConvertFromStopsAtFailure(_, _, _)
ConvertFromStopsAtFailure(commands, k, commandsList) ==
    IF k > Len(commands) THEN commandsList
    ELSE LET commandData == convertCommandToTopGGFormat(commands[k])
         IN  IF commandData # Null
             THEN ConvertFromStopsAtFailure(commands, k + 1,
                                            Append(commandsList, commandData))
             ELSE commandsList

\* the loop of getBotCommandsForTopGG: push every non-null payload, in order
RECURSIVE ConvertFrom(_, _, _)
ConvertFrom(commands, k, commandsList) ==
    IF k > Len(commands) THEN commandsList
    ELSE LET commandData == convertCommandToTopGGFormat(commands[k])
         IN  ConvertFrom(commands, k + 1,
                         IF commandData # Null THEN Append(commandsList, commandData)
                         ELSE commandsList)

\* getBotCommandsForTopGG when the fetch resolved with commands
getBotCommandsForTopGG(commands) == ConvertFrom(commands, 1, << >>)

\* Application commands the platform may answer to commands.fetch()
FetchedPool ==
    { [id |-> "1", name |-> "config", type |-> ChatInput,
       options |-> << [name |-> "key", type |-> 3] >>],
      [id |-> "2", name |-> "Report", type |-> UserContext,
       description |-> "", options |-> << >>,
       defaultMemberPermissions |-> [bitfield |-> 8]],
      [id |-> "3", name |-> "broken", type |-> ChatInput, raises |-> TRUE] }

FetchedLists ==
    { s \in UNION { [1..n -> FetchedPool] : n \in 0..MaxFetched } :
        \A i, j \in 1..Len(s) : s[i].id = s[j].id => i = j }

\* Answers of the directory endpoint; NetworkError stands for a request
\* that got no HTTP answer (or a body that could not be serialized).
NetworkError == 0
NoStatus == -1
PostStatuses == {200, 201, 204, 401, 500}
\* axios default validateStatus: the promise resolves for 2xx, rejects otherwise
AxiosResolves(status) == status >= 200 /\ status < 300

\* the if of lines 84-90 on a resolved response
SuccessStatus(status) == status = 200 \/ status = 204

\* one invocation of postCommandsToTopGG
Cycle(origin, pc, ret) ==
    [origin |-> origin, pc |-> pc, commandsData |-> << >>, fetches |-> 0,
     posts |-> 0, status |-> NoStatus, failure |-> "none", ret |-> ret]

\* --------------------------------------------------------------- variables
VARIABLES
    registered,        \* platform: scope -> list of registered commands
    registeredBefore,  \* history: registered when syncCommands was called
    syncPc,            \* position of syncCommands: idle, get, put, create, done
    guildId,           \* parameter of the running syncCommands
    fetchFailed,       \* history: the fetch of existing commands was rejected
    existingCommands,  \* local existingCommands
    allCommands,       \* local allCommands (the body of the bulk replace)
    createIdx,         \* index of the command the fallback loop is creating
    createdCount,      \* local createdCount
    syncRet,           \* value syncCommands returned (NoReturn before)
    restLog,           \* every REST call issued, with its outcome
    commandsToken,     \* this.commandsToken ("" when COMMANDS_TK is unset)
    cycles,            \* the invocations of postCommandsToTopGG, oldest first
    intervals,         \* event loop: the setInterval timers, TRUE while active
    periodicCommandsInterval, \* this.periodicCommandsInterval (0: undefined)
    timerCalls,        \* history: the calls of start/stopPeriodicUpdates
    convIn,            \* the argument given to a converter
    convOut,           \* what the converter returned (NotConverted before)
    botPc,             \* position of the clientReady handler
    initialTimeout,    \* event loop: the setTimeout of the initial publish
    fetchedLog         \* history: what commands.fetch() answered to each cycle

syncVars == << registered, registeredBefore, syncPc, guildId, fetchFailed,
               existingCommands, allCommands, createIdx, createdCount,
               syncRet, restLog >>

pubVars == << commandsToken, cycles, intervals, periodicCommandsInterval,
              timerCalls >>

convVars == << convIn, convOut >>

botVars == << botPc, initialTimeout >>

histVars == << fetchedLog >>

shellVars == << convVars, botVars, histVars >>

vars == << syncVars, pubVars, convVars, botVars, histVars >>

NoReturn == -1

RestCall(method, route, body) ==
    [method |-> method, route |-> route, body |-> body,
     status |-> "pending", message |-> NoMessage]

\* the answer to the call issued last
Answered(log, status, message) ==
    [log EXCEPT ![Len(log)].status = status, ![Len(log)].message = message]

\* ------------------------------------------------------------ sync actions
\* the syncer before syncCommands is called
SyncIdle ==
    /\ registeredBefore = registered
    /\ syncPc = "idle"
    /\ guildId = NoGuild
    /\ fetchFailed = FALSE
    /\ existingCommands = << >>
    /\ allCommands = << >>
    /\ createIdx = 0
    /\ createdCount = 0
    /\ syncRet = NoReturn
    /\ restLog = << >>

\* the converter was not called
NotConverted == [pending |-> TRUE]
ConverterIdle ==
    /\ convIn = NotConverted
    /\ convOut = NotConverted

\* the client is not ready yet
BotOffline ==
    /\ botPc = "offline"
    /\ initialTimeout = "none"

\* new TopGGIntegration(client): no timer, nothing published yet
PublisherIdle ==
    /\ cycles = << >>
    /\ fetchedLog = << >>
    /\ intervals = << >>
    /\ periodicCommandsInterval = 0
    /\ timerCalls = << >>

InitSync ==
    /\ registered \in [Scopes -> ExistingLists]
    /\ SyncIdle
    /\ commandsToken = "token"
    /\ PublisherIdle
    /\ ConverterIdle
    /\ BotOffline

\* syncCommands(guildId) up to the await of rest.get
SyncCall(g) ==
    /\ syncPc = "idle"
    /\ syncPc' = "get"
    /\ guildId' = g
    /\ registeredBefore' = registered
    /\ existingCommands' = << >>
    /\ restLog' = Append(restLog, RestCall("GET", Route(g), << >>))
    /\ UNCHANGED << registered, fetchFailed, allCommands, createIdx,
                    createdCount, syncRet >>

\* from the answer of rest.get to the await of rest.put: merge, then bulk replace
MergeAndPut(existing, log) ==
    /\ existingCommands' = existing
    /\ allCommands' = MergeCommands(existing)
    /\ restLog' = Append(log, RestCall("PUT", Route(guildId), MergeCommands(existing)))
    /\ syncPc' = "put"

\* rest.get resolved with the scope's commands
SyncGetOk ==
    /\ syncPc = "get"
    /\ MergeAndPut(registered[Route(guildId)], Answered(restLog, "ok", NoMessage))
    /\ UNCHANGED << registered, registeredBefore, guildId, fetchFailed,
                    createIdx, createdCount, syncRet >>

\* SyncGetFail without the inner catch: the rejection reaches the outer catch, return 0.
SyncGetFailAborts(msg) ==
    /\ syncPc = "get"
    /\ fetchFailed' = TRUE
    /\ syncPc' = "done"
    /\ syncRet' = 0
    /\ restLog' = Answered(restLog, "error", msg)
    /\ UNCHANGED << registered, registeredBefore, guildId, existingCommands,
                    allCommands, createIdx, createdCount >>

\* rest.get rejected: the inner catch logs and existingCommands stays []
SyncGetFail(msg) ==
    /\ syncPc = "get"
    /\ fetchFailed' = TRUE
    /\ MergeAndPut(existingCommands, Answered(restLog, "error", msg))
    /\ UNCHANGED << registered, registeredBefore, guildId,
                    createIdx, createdCount, syncRet >>

\* SyncPutOk returning the size of the desired list instead of synced.length.
SyncPutOkReturnsDesiredCount ==
    /\ syncPc = "put"
    /\ registered' = [registered EXCEPT ![Route(guildId)] =
                          PlatformBulkOverwrite(@, allCommands)]
    /\ syncRet' = Len(newCommands)
    /\ restLog' = Answered(restLog, "ok", NoMessage)
    /\ syncPc' = "done"
    /\ UNCHANGED << registeredBefore, guildId, fetchFailed, existingCommands,
                    allCommands, createIdx, createdCount >>

\* rest.put resolved: return synced.length
SyncPutOk ==
    /\ syncPc = "put"
    /\ LET synced == PlatformBulkOverwrite(registered[Route(guildId)], allCommands)
       IN  /\ registered' = [registered EXCEPT ![Route(guildId)] = synced]
           /\ syncRet' = Len(synced)
    /\ restLog' = Answered(restLog, "ok", NoMessage)
    /\ syncPc' = "done"
    /\ UNCHANGED << registeredBefore, guildId, fetchFailed, existingCommands,
                    allCommands, createIdx, createdCount >>

\* the create call of the fallback loop for commands[k], or the return after the loop
CreateNextOrReturn(k, count, log) ==
    IF k <= Len(newCommands)
    THEN /\ syncPc' = "create"
         /\ createIdx' = k
         /\ createdCount' = count
         /\ restLog' = Append(log, RestCall("POST", Route(guildId), newCommands[k]))
         /\ syncRet' = syncRet
    ELSE /\ syncPc' = "done"
         /\ createIdx' = k
         /\ createdCount' = count
         /\ restLog' = log
         /\ syncRet' = count

\* SyncPutFail without the test of the message: every bulk failure falls back.
SyncPutFailAlwaysFallsBack(msg) ==
    /\ syncPc = "put"
    /\ CreateNextOrReturn(1, 0, Answered(restLog, "error", msg))
    /\ UNCHANGED << registered, registeredBefore, guildId, fetchFailed,
                    existingCommands, allCommands >>

\* rest.put rejected: the outer catch; "Entry Point" starts createCommandsIndividually
SyncPutFail(msg) ==
    /\ syncPc = "put"
    /\ IF Includes(msg, EntryPointToken)
       THEN CreateNextOrReturn(1, 0, Answered(restLog, "error", msg))
       ELSE /\ syncPc' = "done"
            /\ syncRet' = 0
            /\ restLog' = Answered(restLog, "error", msg)
            /\ UNCHANGED << createIdx, createdCount >>
    /\ UNCHANGED << registered, registeredBefore, guildId, fetchFailed,
                    existingCommands, allCommands >>

\* rest.post resolved: createdCount++
SyncCreateOk ==
    /\ syncPc = "create"
    /\ registered' = [registered EXCEPT ![Route(guildId)] =
                          PlatformCreate(@, newCommands[createIdx])]
    /\ CreateNextOrReturn(createIdx + 1, createdCount + 1,
                          Answered(restLog, "ok", NoMessage))
    /\ UNCHANGED << registeredBefore, guildId, fetchFailed, existingCommands,
                    allCommands >>

\* SyncCreateFail without the per-command catch: the first rejection ends the loop.
SyncCreateFailStopsLoop(msg) ==
    /\ syncPc = "create"
    /\ CreateNextOrReturn(Len(newCommands) + 1, createdCount,
                          Answered(restLog, "error", msg))
    /\ UNCHANGED << registered, registeredBefore, guildId, fetchFailed,
                    existingCommands, allCommands >>

\* rest.post rejected: logged ("already exists" or not), the loop goes on
SyncCreateFail(msg) ==
    /\ syncPc = "create"
    /\ CreateNextOrReturn(createIdx + 1, createdCount,
                          Answered(restLog, "error", msg))
    /\ UNCHANGED << registered, registeredBefore, guildId, fetchFailed,
                    existingCommands, allCommands >>

NextSync ==
    \/ \E g \in GuildIds : SyncCall(g) /\ UNCHANGED << pubVars, shellVars >>
    \/ SyncGetOk /\ UNCHANGED << pubVars, shellVars >>
    \/ \E msg \in FetchErrorMessages : SyncGetFail(msg) /\ UNCHANGED << pubVars, shellVars >>
    \/ SyncPutOk /\ UNCHANGED << pubVars, shellVars >>
    \/ \E msg \in BulkErrorMessages : SyncPutFail(msg) /\ UNCHANGED << pubVars, shellVars >>
    \/ SyncCreateOk /\ UNCHANGED << pubVars, shellVars >>
    \/ \E msg \in CreateErrorMessages : SyncCreateFail(msg) /\ UNCHANGED << pubVars, shellVars >>

SpecSync == InitSync /\ [][NextSync]_vars

\* --------------------------------------------------------- publish actions
InitPublish ==
    /\ registered = [sc \in Scopes |-> << >>]
    /\ SyncIdle
    /\ commandsToken \in {"", "token"}
    /\ PublisherIdle
    /\ ConverterIdle
    /\ BotOffline

\* InvokePost without the credential guard of lines 63-66.
InvokePostNoCredentialGuard(origin) ==
    /\ Len(cycles) < MaxCycles
    /\ cycles' = Append(cycles,
          [Cycle(origin, "fetch", "pending") EXCEPT !.fetches = 1])

\* postCommandsToTopGG up to its first await: the credential guard, then
\* the fetch of getBotCommandsForTopGG is issued
InvokePost(origin) ==
    /\ Len(cycles) < MaxCycles
    /\ cycles' = Append(cycles,
          IF commandsToken = ""
          THEN Cycle(origin, "done", "false")
          ELSE [Cycle(origin, "fetch", "pending") EXCEPT !.fetches = 1])

\* a direct call of postCommandsToTopGG
PostCall ==
    /\ InvokePost("call")
    /\ UNCHANGED << syncVars, commandsToken, intervals,
                    periodicCommandsInterval, timerCalls >>

\* commands.fetch() resolved: convert, then the empty-batch guard, then axios.post
PublishFetchOk(c, commands) ==
    /\ c \in 1..Len(cycles)
    /\ cycles[c].pc = "fetch"
    /\ LET commandsData == getBotCommandsForTopGG(commands)
       IN  cycles' = [cycles EXCEPT ![c] =
              IF Len(commandsData) = 0
              THEN [@ EXCEPT !.pc = "done", !.ret = "false"]
              ELSE [@ EXCEPT !.pc = "post", !.commandsData = commandsData,
                             !.posts = @ + 1]]
    /\ UNCHANGED << syncVars, commandsToken, intervals,
                    periodicCommandsInterval, timerCalls >>

\* PublishFetchFail giving up the schedule: the failed cycle clears the timer.
PublishFetchFailClearsTimer(c) ==
    /\ c \in 1..Len(cycles)
    /\ cycles[c].pc = "fetch"
    /\ cycles' = [cycles EXCEPT ![c] =
                     [@ EXCEPT !.pc = "done", !.failure = "fetch", !.ret = "false"]]
    /\ intervals' = [t \in 1..Len(intervals) |-> FALSE]
    /\ UNCHANGED << syncVars, commandsToken, periodicCommandsInterval, timerCalls >>

\* commands.fetch() rejected: getBotCommandsForTopGG returns [], the guard returns false
PublishFetchFail(c) ==
    /\ c \in 1..Len(cycles)
    /\ cycles[c].pc = "fetch"
    /\ cycles' = [cycles EXCEPT ![c] =
                     [@ EXCEPT !.pc = "done", !.failure = "fetch", !.ret = "false"]]
    /\ UNCHANGED << syncVars, commandsToken, intervals,
                    periodicCommandsInterval, timerCalls >>

\* PublishPostAnswer accepting every 2xx answer as a success.
PublishPostAnswerAny2xx(c, status) ==
    /\ c \in 1..Len(cycles)
    /\ cycles[c].pc = "post"
    /\ cycles' = [cycles EXCEPT ![c] =
          [@ EXCEPT !.pc = "done", !.commandsData = << >>, !.status = status,
                    !.failure = IF AxiosResolves(status) THEN "none" ELSE "post",
                    !.ret = IF AxiosResolves(status) THEN "true" ELSE "false"]]
    /\ UNCHANGED << syncVars, commandsToken, intervals,
                    periodicCommandsInterval, timerCalls >>

\* the endpoint answered: axios resolves (2xx) and the status is tested, or
\* axios rejects and the catch returns false
PublishPostAnswer(c, status) ==
    /\ c \in 1..Len(cycles)
    /\ cycles[c].pc = "post"
    /\ cycles' = [cycles EXCEPT ![c] =
          [@ EXCEPT !.pc = "done", !.commandsData = << >>, !.status = status,
                    !.failure = IF AxiosResolves(status) THEN "none" ELSE "post",
                    !.ret = IF AxiosResolves(status) /\ SuccessStatus(status)
                            THEN "true" ELSE "false"]]
    /\ UNCHANGED << syncVars, commandsToken, intervals,
                    periodicCommandsInterval, timerCalls >>

\* PublishPostError without the catch of lines 91-94: the rejection propagates.
PublishPostErrorPropagates(c) ==
    /\ c \in 1..Len(cycles)
    /\ cycles[c].pc = "post"
    /\ cycles' = [cycles EXCEPT ![c] =
          [@ EXCEPT !.pc = "done", !.commandsData = << >>, !.status = NetworkError,
                    !.failure = "post", !.ret = "exception"]]
    /\ UNCHANGED << syncVars, commandsToken, intervals,
                    periodicCommandsInterval, timerCalls >>

\* axios.post rejected without an answer (network, serialization): the catch returns false
PublishPostError(c) ==
    /\ c \in 1..Len(cycles)
    /\ cycles[c].pc = "post"
    /\ cycles' = [cycles EXCEPT ![c] =
          [@ EXCEPT !.pc = "done", !.commandsData = << >>, !.status = NetworkError,
                    !.failure = "post", !.ret = "false"]]
    /\ UNCHANGED << syncVars, commandsToken, intervals,
                    periodicCommandsInterval, timerCalls >>

\* startPeriodicUpdates: setInterval, the handle is stored in the field
startPeriodicUpdates ==
    /\ Len(timerCalls) < MaxTimerCalls
    /\ intervals' = Append(intervals, TRUE)
    /\ periodicCommandsInterval' = Len(intervals) + 1
    /\ timerCalls' = Append(timerCalls, "start")
    /\ UNCHANGED << syncVars, commandsToken, cycles >>

\* stopPeriodicUpdates that forgets clearInterval.
stopPeriodicUpdatesKeepsTimer ==
    /\ Len(timerCalls) < MaxTimerCalls
    /\ timerCalls' = Append(timerCalls, "stop")
    /\ UNCHANGED << syncVars, commandsToken, cycles, intervals,
                    periodicCommandsInterval >>

\* stopPeriodicUpdates: clearInterval of the stored handle, when there is one
stopPeriodicUpdates ==
    /\ Len(timerCalls) < MaxTimerCalls
    /\ intervals' = IF periodicCommandsInterval # 0
                    THEN [intervals EXCEPT ![periodicCommandsInterval] = FALSE]
                    ELSE intervals
    /\ timerCalls' = Append(timerCalls, "stop")
    /\ UNCHANGED << syncVars, commandsToken, cycles, periodicCommandsInterval >>

\* the callback of an active setInterval timer: await postCommandsToTopGG()
IntervalTick(t) ==
    /\ t \in 1..Len(intervals)
    /\ intervals[t]
    /\ InvokePost("interval")
    /\ UNCHANGED << syncVars, commandsToken, intervals,
                    periodicCommandsInterval, timerCalls >>

NextPublish ==
    \/ PostCall /\ UNCHANGED shellVars
    \/ \E c \in 1..MaxCycles, commands \in FetchedLists :
          PublishFetchOk(c, commands) /\ UNCHANGED shellVars
    \/ \E c \in 1..MaxCycles : PublishFetchFail(c) /\ UNCHANGED shellVars
    \/ \E c \in 1..MaxCycles, status \in PostStatuses :
          PublishPostAnswer(c, status) /\ UNCHANGED shellVars
    \/ \E c \in 1..MaxCycles : PublishPostError(c) /\ UNCHANGED shellVars
    \/ startPeriodicUpdates /\ UNCHANGED shellVars
    \/ stopPeriodicUpdates /\ UNCHANGED shellVars
    \/ \E t \in 1..MaxTimerCalls : IntervalTick(t) /\ UNCHANGED shellVars

SpecPublish == InitPublish /\ [][NextPublish]_vars

\* ------------------------------------------- publish cycles, with the
\* answers of commands.fetch() kept while their cycle runs
InitPublishBatch == InitPublish

\* the log with the answer to cycle c, and to the cycles before it if unset
Logged(log, c, commands) ==
    [k \in 1..(IF c > Len(log) THEN c ELSE Len(log)) |->
        IF k = c THEN commands ELSE IF k <= Len(log) THEN log[k] ELSE << >>]

BatchInvoke ==
    /\ PostCall
    /\ UNCHANGED shellVars

BatchFetchOk(c, commands) ==
    /\ PublishFetchOk(c, commands)
    /\ fetchedLog' = Logged(fetchedLog, c, commands)
    /\ UNCHANGED << convVars, botVars >>

BatchFetchFail(c) ==
    /\ PublishFetchFail(c)
    /\ UNCHANGED shellVars

\* the answer to the POST ends the cycle: its batch and its fetched list are dropped
BatchPostAnswered(c) ==
    /\ \/ \E status \in PostStatuses : PublishPostAnswer(c, status)
       \/ PublishPostError(c)
    /\ fetchedLog' = Logged(fetchedLog, c, << >>)
    /\ UNCHANGED << convVars, botVars >>

NextPublishBatch ==
    \/ BatchInvoke
    \/ \E c \in 1..MaxCycles, commands \in FetchedLists : BatchFetchOk(c, commands)
    \/ \E c \in 1..MaxCycles : BatchFetchFail(c)
    \/ \E c \in 1..MaxCycles : BatchPostAnswered(c)

SpecPublishBatch == InitPublishBatch /\ [][NextPublishBatch]_vars

\* ------------------------------- syncCommands without a desired list
\* (the variant of the second source file: fetch, then bulk replace with
\* the fetched list, both inside one try)

\* rest.get resolved: rest.put is issued with body existingCommands
PlainSyncGetOk ==
    /\ syncPc = "get"
    /\ existingCommands' = registered[Route(guildId)]
    /\ restLog' = Append(Answered(restLog, "ok", NoMessage),
                         RestCall("PUT", Route(guildId), registered[Route(guildId)]))
    /\ syncPc' = "put"
    /\ UNCHANGED << registered, registeredBefore, guildId, fetchFailed,
                    allCommands, createIdx, createdCount, syncRet >>

\* PlainSyncGetFail going on as the variant with a desired list does: the
\* bulk replace is sent with the empty existingCommands.
PlainSyncGetFailStillPuts(msg) ==
    /\ syncPc = "get"
    /\ fetchFailed' = TRUE
    /\ restLog' = Append(Answered(restLog, "error", msg),
                         RestCall("PUT", Route(guildId), existingCommands))
    /\ syncPc' = "put"
    /\ UNCHANGED << registered, registeredBefore, guildId, existingCommands,
                    allCommands, createIdx, createdCount, syncRet >>

\* rest.get rejected: the inner catch returns 0
PlainSyncGetFail(msg) ==
    /\ syncPc = "get"
    /\ fetchFailed' = TRUE
    /\ restLog' = Answered(restLog, "error", msg)
    /\ syncPc' = "done"
    /\ syncRet' = 0
    /\ UNCHANGED << registered, registeredBefore, guildId, existingCommands,
                    allCommands, createIdx, createdCount >>

\* rest.put resolved: return synced.length
PlainSyncPutOk ==
    /\ syncPc = "put"
    /\ LET synced == PlatformBulkOverwrite(registered[Route(guildId)],
                                          restLog[Len(restLog)].body)
       IN  /\ registered' = [registered EXCEPT ![Route(guildId)] = synced]
           /\ syncRet' = Len(synced)
    /\ restLog' = Answered(restLog, "ok", NoMessage)
    /\ syncPc' = "done"
    /\ UNCHANGED << registeredBefore, guildId, fetchFailed, existingCommands,
                    allCommands, createIdx, createdCount >>

\* rest.put rejected: the inner catch returns 0, whatever the message
PlainSyncPutFail(msg) ==
    /\ syncPc = "put"
    /\ restLog' = Answered(restLog, "error", msg)
    /\ syncPc' = "done"
    /\ syncRet' = 0
    /\ UNCHANGED << registered, registeredBefore, guildId, fetchFailed,
                    existingCommands, allCommands, createIdx, createdCount >>

NextPlainSync ==
    \/ \E g \in GuildIds : SyncCall(g) /\ UNCHANGED << pubVars, shellVars >>
    \/ PlainSyncGetOk /\ UNCHANGED << pubVars, shellVars >>
    \/ \E msg \in FetchErrorMessages :
          PlainSyncGetFail(msg) /\ UNCHANGED << pubVars, shellVars >>
    \/ PlainSyncPutOk /\ UNCHANGED << pubVars, shellVars >>
    \/ \E msg \in BulkErrorMessages :
          PlainSyncPutFail(msg) /\ UNCHANGED << pubVars, shellVars >>

SpecPlainSync == InitSync /\ [][NextPlainSync]_vars

\* ------------------------------------------------- clientReady handler
\* setTimeout(..., 2000) of the initial publish, setInterval(..., 86400000)
InitialDelay == 2000
Period == 86400000

\* the registries the bot may find in its global scope: nothing, or the
\* Entry Point command of an activity
BotRegistries ==
    { l \in ExistingLists :
        Len(l) <= 1 /\ \A i \in 1..Len(l) : l[i].type = PrimaryEntryPoint }

InitBot ==
    /\ \E l \in BotRegistries :
          registered = [sc \in Scopes |-> IF sc = "global" THEN l ELSE << >>]
    /\ SyncIdle
    /\ commandsToken \in {"", "token"}
    /\ PublisherIdle
    /\ ConverterIdle
    /\ BotOffline

\* clientReady fires: the handler runs to the await inside syncer.syncCommands()
BotReady ==
    /\ botPc = "offline"
    /\ botPc' = "sync"
    /\ SyncCall(NoGuild)
    /\ UNCHANGED << pubVars, convVars, histVars, initialTimeout >>

\* a step of the syncCommands the handler called
BotSyncStep ==
    /\ botPc # "offline"
    /\ \/ SyncGetOk
       \/ \E msg \in FetchErrorMessages : SyncGetFail(msg)
       \/ SyncPutOk
       \/ \E msg \in BulkErrorMessages : SyncPutFail(msg)
       \/ SyncCreateOk
       \/ \E msg \in CreateErrorMessages : SyncCreateFail(msg)
    /\ UNCHANGED << pubVars, shellVars >>

\* BotStartPublishing when syncCommands is called without await.
BotStartPublishingWithoutAwait ==
    /\ botPc = "sync"
    /\ botPc' = "ready"
    /\ startPeriodicUpdates
    /\ initialTimeout' = "pending"
    /\ UNCHANGED << convVars, histVars >>

\* syncCommands returned: await topgg.startPeriodicUpdates(), then setTimeout
BotStartPublishing ==
    /\ botPc = "sync"
    /\ syncPc = "done"
    /\ botPc' = "ready"
    /\ startPeriodicUpdates
    /\ initialTimeout' = "pending"
    /\ UNCHANGED << convVars, histVars >>

\* the setTimeout callback: await topgg.postCommandsToTopGG()
BotInitialPublish ==
    /\ initialTimeout = "pending"
    /\ initialTimeout' = "fired"
    /\ InvokePost("timeout")
    /\ UNCHANGED << syncVars, commandsToken, intervals, periodicCommandsInterval,
                    timerCalls, convVars, histVars, botPc >>

\* the setInterval callback; timers fire in the order of their delays, so
\* the first tick comes after the initial publish was invoked
BotIntervalTick(t) ==
    /\ InitialDelay < Period => initialTimeout = "fired"
    /\ IntervalTick(t)
    /\ UNCHANGED shellVars

\* the answers to the network calls of the publish cycles
BotPublishStep ==
    /\ \/ \E c \in 1..MaxCycles, commands \in FetchedLists : PublishFetchOk(c, commands)
       \/ \E c \in 1..MaxCycles : PublishFetchFail(c)
       \/ \E c \in 1..MaxCycles, status \in PostStatuses : PublishPostAnswer(c, status)
       \/ \E c \in 1..MaxCycles : PublishPostError(c)
    /\ UNCHANGED shellVars

NextBot ==
    \/ BotReady
    \/ BotSyncStep
    \/ BotStartPublishing
    \/ BotInitialPublish
    \/ \E t \in 1..MaxTimerCalls : BotIntervalTick(t)
    \/ BotPublishStep

SpecBot == InitBot /\ [][NextBot]_vars

\* ------------------------------------------------------- converter actions
\* the records r extended by field |-> v for every v of values, and r itself
WithOptional(rs, field, values) ==
    rs \cup { (field :> v) @@ r : r \in rs, v \in values }

\* leaf options: description, required and choices present or not
LeafOptions ==
    WithOptional(
      WithOptional(
        WithOptional({ [name |-> "key", type |-> 3] },
                     "description", {"", "Setting to change"}),
        "required", {TRUE, FALSE}),
      "choices", { << >>, << [name |-> "Prefix", value |-> "prefix"],
                            [name |-> "Language", value |-> "lang"] >> })

\* commands handed to convertCommandToTopGGFormat
CommandInputs ==
    WithOptional(
      WithOptional(
        WithOptional(
          { [id |-> "7", name |-> n, type |-> t] :
                n \in {"config", "Report"},
                t \in {ChatInput, UserContext, MessageContext, PrimaryEntryPoint} },
          "description", {"", "Configure the bot"}),
        "options", { << >>,
                     << [name |-> "key", type |-> 3] >>,
                     << [name |-> "set", type |-> 1, description |-> "Set a value",
                         options |-> << [name |-> "key", type |-> 3, required |-> TRUE],
                                        [name |-> "value", type |-> 3] >>] >> }),
      "defaultMemberPermissions", { [bitfield |-> 0], [bitfield |-> 8] })
    \cup { [id |-> "3", name |-> "broken", type |-> ChatInput, raises |-> TRUE] }

InitConvertCommand ==
    /\ registered = [sc \in Scopes |-> << >>]
    /\ SyncIdle
    /\ commandsToken = "token"
    /\ PublisherIdle
    /\ BotOffline
    /\ convIn \in CommandInputs
    /\ convOut = NotConverted

\* await this.convertCommandToTopGGFormat(command)
ConvertCommand ==
    /\ Has(convIn, "id")
    /\ convOut = NotConverted
    /\ convOut' = convertCommandToTopGGFormat(convIn)
    /\ UNCHANGED << syncVars, pubVars, botVars, histVars, convIn >>

NextConvertCommand == ConvertCommand

SpecConvertCommand == InitConvertCommand /\ [][NextConvertCommand]_vars

\* ============================================================ sync claims
DesiredNames == { newCommands[k].name : k \in 1..Len(newCommands) }
DesiredNamed(n) == CHOOSE c \in { newCommands[k] : k \in 1..Len(newCommands) } : c.name = n
Names(list) == { list[i].name : i \in 1..Len(list) }
DistinctNames(list) ==
    \A i, j \in 1..Len(list) : list[i].name = list[j].name => i = j
Occurrences(list, n) == Cardinality({ i \in 1..Len(list) : list[i].name = n })
AbsentFrom(list) == LET Absent(c) == c.name \notin Names(list)
                    IN  SelectSeq(newCommands, Absent)

\* indices of the calls of one method in restLog
CallsOf(method) == { i \in 1..Len(restLog) : restLog[i].method = method }
\* the list the scope held when the fetch was answered
FetchedList == registeredBefore[Route(guildId)]
BulkIssued == CallsOf("PUT") # {}
BulkBody == restLog[CHOOSE i \in CallsOf("PUT") : TRUE].body
BulkFailedWith(hasEntryPoint) ==
    \E i \in CallsOf("PUT") :
        /\ restLog[i].status = "error"
        /\ Includes(restLog[i].message, EntryPointToken) = hasEntryPoint

\* the reference merge of C4, stated on the lists only
IsReferenceMerge(existing, body) ==
    /\ Len(body) = Len(existing) + Len(AbsentFrom(existing))
    /\ \A i \in 1..Len(existing) :
          body[i] = IF existing[i].name \in DesiredNames
                    THEN DesiredNamed(existing[i].name)
                    ELSE existing[i]
    /\ SubSeq(body, Len(existing) + 1, Len(body)) = AbsentFrom(existing)
    /\ \A n \in DesiredNames : Occurrences(body, n) = 1

\* C4: after a successful fetch of a list with pairwise distinct names, the
\* body of the bulk replace is the reference merge: desired commands replace
\* their namesakes in place, the other existing commands keep their index,
\* the missing desired commands are appended in desired order, and no
\* desired name occurs twice.
C4_MergeIsReferenceMerge ==
    (BulkIssued /\ ~fetchFailed /\ DistinctNames(FetchedList))
        => IsReferenceMerge(FetchedList, BulkBody)

\* C4 case: [help, ping(old)] was fetched, so ping is replaced at index 2,
\* help stays at index 1 and info is appended.
C4_Witness ==
    /\ BulkIssued /\ ~fetchFailed
    /\ Len(FetchedList) = 2
    /\ FetchedList[1].name = "help"
    /\ FetchedList[2].name = "ping"
    /\ Len(BulkBody) = 3
    /\ BulkBody[2] = newCommands[1]
    /\ BulkBody[3] = newCommands[2]

\* a command of the scope that is not one of the bot's desired names
RegisteredByOtherMeans(c) == c.name \notin DesiredNames

\* C5: whether the fetch succeeded or failed, the body of the bulk replace
\* contains every command the scope holds that was registered by other
\* means than the desired set.
C5_BulkBodyKeepsForeignCommands ==
    BulkIssued =>
        \A i \in 1..Len(FetchedList) :
            RegisteredByOtherMeans(FetchedList[i])
                => \E j \in 1..Len(BulkBody) : BulkBody[j] = FetchedList[i]

\* C6: a failed fetch does not abort the sync: exactly one bulk replace is
\* issued, right after the fetch, against the scope of the fetch, and its
\* body is exactly the desired list [ping, info].
C6_FetchFailureSendsDesiredList ==
    fetchFailed =>
        /\ Cardinality(CallsOf("PUT")) = 1
        /\ restLog[1].method = "GET"
        /\ restLog[1].status = "error"
        /\ restLog[2].method = "PUT"
        /\ restLog[2].route = restLog[1].route
        /\ restLog[2].route = Route(guildId)
        /\ restLog[2].body = newCommands

\* C6 case: the fetch failed in a scope that holds commands and the sync
\* ran to its return.
C6_Witness ==
    /\ fetchFailed
    /\ syncPc = "done"
    /\ Len(FetchedList) > 0
    /\ restLog[2].status = "ok"

\* C7: after a bulk replace that failed with "Entry Point", the sync that
\* has returned issued one create per desired command, in order, against
\* the scope of the bulk replace, whatever the earlier creates answered,
\* and returned the number of creates that succeeded.
C7_FallbackCreatesEachAndCounts ==
    (syncPc = "done" /\ BulkFailedWith(TRUE)) =>
        LET put == CHOOSE i \in CallsOf("PUT") : TRUE
        IN  /\ Cardinality(CallsOf("POST")) = Len(newCommands)
            /\ \A k \in 1..Len(newCommands) :
                  /\ restLog[put + k].method = "POST"
                  /\ restLog[put + k].body = newCommands[k]
                  /\ restLog[put + k].route = restLog[put].route
            /\ syncRet = Cardinality({ i \in CallsOf("POST") : restLog[i].status = "ok" })
            /\ syncRet \in 0..2

\* C7 case: the create of ping failed with "already exists", the create of
\* info succeeded, the sync returned 1.
C7_Witness ==
    /\ syncPc = "done"
    /\ BulkFailedWith(TRUE)
    /\ Len(restLog) = 4
    /\ restLog[3].status = "error"
    /\ Includes(restLog[3].message, AlreadyExistsToken)
    /\ restLog[4].status = "ok"
    /\ syncRet = 1

\* C8: after a bulk replace that failed without "Entry Point" the sync has
\* returned 0, the bulk replace is the last call it issued and the scopes
\* hold what they held when the sync started; and every individual create
\* comes after a bulk replace that failed with "Entry Point".
C8_OtherBulkFailureLeavesScope ==
    /\ BulkFailedWith(FALSE) =>
          /\ syncPc = "done"
          /\ syncRet = 0
          /\ restLog[Len(restLog)].method = "PUT"
          /\ Cardinality(CallsOf("PUT")) = 1
          /\ CallsOf("POST") = {}
          /\ registered = registeredBefore
    /\ \A i \in CallsOf("POST") :
          \E j \in CallsOf("PUT") :
              /\ j < i
              /\ restLog[j].status = "error"
              /\ Includes(restLog[j].message, EntryPointToken)

\* C8 case: the bulk replace failed with "Missing Access" in a scope that
\* holds commands.
C8_Witness ==
    /\ BulkFailedWith(FALSE)
    /\ syncPc = "done"
    /\ Len(FetchedList) > 0
    /\ ~fetchFailed

\* C9 as stated: the value syncCommands returns is the number of commands
\* registered in the scope when it returns.
C9_ReturnIsRegisteredCount ==
    syncPc = "done" => syncRet = Len(registered[Route(guildId)])

\* C9 amended: the returned value is the number of registered commands only
\* when the bulk replace succeeded; after an "Entry Point" failure it is the
\* number of successful creates, after any other bulk failure it is 0,
\* whatever the scope holds.
C9_ReturnByOutcome ==
    syncPc = "done" =>
        LET put == CHOOSE i \in CallsOf("PUT") : TRUE
        IN  /\ restLog[put].status = "ok" =>
                  /\ syncRet = Len(registered[Route(guildId)])
                  /\ syncRet = Len(restLog[put].body)
            /\ BulkFailedWith(TRUE) =>
                  syncRet = Cardinality({ i \in CallsOf("POST") : restLog[i].status = "ok" })
            /\ BulkFailedWith(FALSE) => syncRet = 0

\* C9 case: the bulk replace succeeded with a body of three commands.
C9_Witness ==
    /\ syncPc = "done"
    /\ restLog[Len(restLog)].method = "PUT"
    /\ restLog[Len(restLog)].status = "ok"
    /\ syncRet = 3
    /\ Len(registered[Route(guildId)]) = 3

\* ========================================================= publish claims
Done(c) == cycles[c].pc = "done"
\* the cycle reached the POST to the directory endpoint
ReachedPost(c) == cycles[c].posts > 0

\* C1: a publish cycle that reached the POST returns true exactly when the
\* endpoint answered 200 or 204; every other answer (201, a status axios
\* raises, no answer at all) yields false.
C1_TrueIffStatus200Or204 ==
    \A c \in 1..Len(cycles) :
        (Done(c) /\ ReachedPost(c)) =>
            /\ cycles[c].ret = "true" <=> cycles[c].status \in {200, 204}
            /\ cycles[c].status \notin {200, 204} => cycles[c].ret = "false"

\* C1 case: one cycle was answered 201 and returned false, another was
\* answered 204 and returned true.
C1_Witness ==
    /\ Len(cycles) = 2
    /\ Done(1) /\ cycles[1].status = 201 /\ cycles[1].ret = "false"
    /\ Done(2) /\ cycles[2].status = 204 /\ cycles[2].ret = "true"

\* C2: without a credential every invocation has returned false and issued
\* neither the command fetch nor the POST; a cycle that ended at the
\* empty-batch guard returned false without a POST; the body of every POST
\* in flight is a non-empty list.
C2_NoCallWithoutCredentialOrBatch ==
    \A c \in 1..Len(cycles) :
        /\ commandsToken = "" =>
              /\ Done(c) /\ cycles[c].ret = "false"
              /\ cycles[c].fetches = 0 /\ cycles[c].posts = 0
        /\ (Done(c) /\ ~ReachedPost(c)) => cycles[c].ret = "false"
        /\ cycles[c].posts <= 1
        /\ cycles[c].pc = "post" =>
              /\ cycles[c].posts = 1
              /\ Len(cycles[c].commandsData) > 0

\* C2 case: with a credential, one cycle fetched commands that all failed
\* to convert (or none) and returned false without a POST, while another
\* cycle has a POST in flight.
C2_Witness ==
    /\ commandsToken # ""
    /\ Len(cycles) = 2
    /\ Done(1) /\ cycles[1].failure = "none" /\ cycles[1].fetches = 1
    /\ cycles[1].posts = 0 /\ cycles[1].ret = "false"
    /\ cycles[2].pc = "post"

\* C2 case: without a credential an invocation returned at once.
C2_WitnessNoCredential ==
    /\ commandsToken = ""
    /\ Len(cycles) > 0

Starts == { i \in 1..Len(timerCalls) : timerCalls[i] = "start" }
Stops  == { i \in 1..Len(timerCalls) : timerCalls[i] = "stop" }
\* startPeriodicUpdates was called once and stopPeriodicUpdates after it
StartedOnceThenStopped ==
    /\ Cardinality(Starts) = 1
    /\ \E i \in Starts, j \in Stops : i < j
\* this step is the timer callback invoking postCommandsToTopGG
PeriodicInvocationStep ==
    /\ Len(cycles') = Len(cycles) + 1
    /\ cycles'[Len(cycles')].origin = "interval"
\* this step is a call of stopPeriodicUpdates
StopStep == timerCalls' = Append(timerCalls, "stop")
\* nothing to stop: never started, or the last call was already a stop
NothingToStop ==
    \/ Starts = {}
    \/ (timerCalls # << >> /\ timerCalls[Len(timerCalls)] = "stop")

\* C10: once startPeriodicUpdates was called once and stopPeriodicUpdates
\* after it, no step is a timer callback invoking postCommandsToTopGG; and
\* a stopPeriodicUpdates that is repeated, or called before any start,
\* changes neither the timers nor the handle nor the publish cycles.
C10_StopEndsPeriodicPublish ==
    [][ /\ StartedOnceThenStopped => ~PeriodicInvocationStep
        /\ (StopStep /\ NothingToStop) =>
              /\ intervals' = intervals
              /\ periodicCommandsInterval' = periodicCommandsInterval
              /\ cycles' = cycles ]_vars

\* C10 case: the timer ticked, then stopPeriodicUpdates was called twice.
C10_Witness ==
    /\ timerCalls = <<"start", "stop", "stop">>
    /\ intervals = << FALSE >>
    /\ \E c \in 1..Len(cycles) : cycles[c].origin = "interval"

\* C10 case: stopPeriodicUpdates was called although nothing was started.
C10_WitnessNeverStarted ==
    /\ timerCalls = <<"stop">>
    /\ intervals = << >>

\* the lists of at most n elements of set
ListsUpTo(set, n) == UNION { [1..k -> set] : k \in 0..n }

\* leaves that differ in what they leave out
SampleLeaves ==
    { [name |-> "key", type |-> 3],
      [name |-> "value", type |-> 3, description |-> "New value", required |-> TRUE,
       choices |-> << [name |-> "On", value |-> "on"], [name |-> "Off", value |-> "off"] >>],
      [name |-> "scope", type |-> 3, description |-> "", choices |-> << >>] }

\* subcommands (type 1): with or without description, with a list of leaves or none
SubcommandOptions ==
    { [name |-> "reset", type |-> 1] }
    \cup { [name |-> "set", type |-> 1, description |-> "Set a value", options |-> os] :
              os \in ListsUpTo(SampleLeaves, MaxOptions) }

SampleSubcommands ==
    { [name |-> "reset", type |-> 1],
      [name |-> "set", type |-> 1, description |-> "Set a value",
       options |-> << [name |-> "key", type |-> 3], 
                      [name |-> "scope", type |-> 3, description |-> "", choices |-> << >>] >>] }

\* subcommand groups (type 2) over subcommands
GroupOptions ==
    { [name |-> "admin", type |-> 2, options |-> os] :
          os \in ListsUpTo(SampleSubcommands, MaxOptions) }

\* option trees handed to convertOptionToTopGGFormat: leaf, subcommand, group
OptionInputs == LeafOptions \cup SubcommandOptions \cup GroupOptions

\* chat-input commands whose options are option trees
CommandsWithOptions ==
    { [id |-> "7", name |-> "config", type |-> ChatInput,
       description |-> "Configure the bot", options |-> os] :
          os \in ListsUpTo(GroupOptions, 1) \cup ListsUpTo(SampleSubcommands, MaxOptions) }

InitConvertOption ==
    /\ registered = [sc \in Scopes |-> << >>]
    /\ SyncIdle
    /\ commandsToken = "token"
    /\ PublisherIdle
    /\ BotOffline
    /\ convIn \in OptionInputs \cup CommandsWithOptions
    /\ convOut = NotConverted

\* this.convertOptionToTopGGFormat(option)
ConvertOption ==
    /\ ~Has(convIn, "id")
    /\ convOut = NotConverted
    /\ convOut' = convertOptionToTopGGFormat(convIn)
    /\ UNCHANGED << syncVars, pubVars, botVars, histVars, convIn >>

NextConvertOption ==
    \/ ConvertOption
    \/ ConvertCommand

SpecConvertOption == InitConvertOption /\ [][NextConvertOption]_vars

\* ======================================================= converter claims
Converted == convOut # NotConverted /\ convOut # Null
ContextMenu(command) == command.type \in {UserContext, MessageContext}

\* C11: a converted context-menu command keeps its type, has the empty
\* description and no options; every other command gets type 1 and its own
\* description, or "No description" when it has none. Both carry id, name,
\* application id and version "1", and default_member_permissions is there,
\* as a string, exactly when the command has a permissions bitmask.
C11_CommandPayloadShape ==
    Converted =>
        /\ convOut.id = convIn.id
        /\ convOut.name = convIn.name
        /\ convOut.application_id = ApplicationId
        /\ convOut.version = "1"
        /\ IF ContextMenu(convIn)
           THEN /\ convOut.type = convIn.type
                /\ convOut.description = ""
                /\ ~Has(convOut, "options")
           ELSE /\ convOut.type = 1
                /\ convOut.description =
                      IF Has(convIn, "description") /\ convIn.description # ""
                      THEN convIn.description ELSE "No description"
        /\ Has(convOut, "default_member_permissions")
              <=> Has(convIn, "defaultMemberPermissions")
        /\ Has(convOut, "default_member_permissions")
              => convOut.default_member_permissions \in STRING

\* C11 case: a user-context command that carries a description, options and
\* the permissions bitmask 0 was converted.
C11_Witness ==
    /\ Converted
    /\ convIn.type = UserContext
    /\ Truthy(convIn, "description")
    /\ NonEmpty(convIn, "options")
    /\ Has(convIn, "defaultMemberPermissions")
    /\ convIn.defaultMemberPermissions.bitfield = 0
    /\ convOut.default_member_permissions = "0"

\* the fields a converted option must have, no more and no less
ExpectedOptionFields(option) ==
    {"name", "description", "type", "required"}
    \cup (IF NonEmpty(option, "choices") THEN {"choices"} ELSE {})
    \cup (IF NonEmpty(option, "options") THEN {"options"} ELSE {})

\* out is what C12 asks of the conversion of option
RECURSIVE OptionMatches(_, _)
OptionMatches(option, out) ==
    /\ DOMAIN out = ExpectedOptionFields(option)
    /\ out.name = option.name
    /\ out.type = option.type
    /\ out.required = (Has(option, "required") /\ option.required)
    /\ out.description = IF Has(option, "description") /\ option.description # ""
                         THEN option.description ELSE "Parameter"
    /\ NonEmpty(option, "choices") => out.choices = option.choices
    /\ NonEmpty(option, "options") =>
          /\ Len(out.options) = Len(option.options)
          /\ \A i \in 1..Len(option.options) :
                OptionMatches(option.options[i], out.options[i])

\* C12: a converted option tree copies name and type, copies required or
\* sets false, copies the description or sets "Parameter", copies a
\* non-empty choices list and omits an empty or missing one, and converts
\* the sub-options by the same rule, in order, omitting the field when
\* there are none; the options of a chat-input command are converted the
\* same way, as many and in the same order.
C12_OptionTreeConverted ==
    Converted =>
        IF Has(convIn, "id")
        THEN IF NonEmpty(convIn, "options")
             THEN /\ Has(convOut, "options")
                  /\ Len(convOut.options) = Len(convIn.options)
                  /\ \A i \in 1..Len(convIn.options) :
                        OptionMatches(convIn.options[i], convOut.options[i])
             ELSE ~Has(convOut, "options")
        ELSE OptionMatches(convIn, convOut)

\* C12 case: a group holding two subcommands, one of them with two leaves
\* that lack a description, was converted.
C12_Witness ==
    /\ Converted
    /\ ~Has(convIn, "id")
    /\ convIn.type = 2
    /\ Len(convIn.options) = 2
    /\ convIn.options[1].name = "reset"
    /\ convIn.options[2].name = "set"
    /\ Len(convOut.options[2].options) = 2
    /\ convOut.options[2].options[1].description = "Parameter"
    /\ ~Has(convOut.options[2].options[2], "choices")

\* the fetched commands whose conversion does not fail, in fetch order
ConvertibleOf(commands) ==
    LET Convertible(command) == ~Has(command, "raises")
    IN  SelectSeq(commands, Convertible)

\* what commands.fetch() answered to cycle c
FetchedBy(c) == IF c <= Len(fetchedLog) THEN fetchedLog[c] ELSE << >>

\* the cycle ended at the empty-batch guard
EndedAtBatchGuard(c) ==
    /\ Done(c) /\ cycles[c].failure = "none"
    /\ cycles[c].fetches = 1 /\ cycles[c].posts = 0

\* C13: the batch of a POST in flight holds one payload for every fetched
\* command whose conversion succeeded, in fetch order, whatever the position
\* of the commands whose conversion failed; a cycle ends at the empty-batch
\* guard only when no fetched command could be converted.
C13_FailedConversionIsSkipped ==
    \A c \in 1..Len(cycles) :
        LET kept == ConvertibleOf(FetchedBy(c))
        IN  /\ cycles[c].pc = "post" =>
                  /\ Len(cycles[c].commandsData) = Len(kept)
                  /\ \A i \in 1..Len(kept) :
                        /\ cycles[c].commandsData[i].id = kept[i].id
                        /\ cycles[c].commandsData[i] = ConvertedCommand(kept[i])
            /\ EndedAtBatchGuard(c) => kept = << >>

\* C13 case: the first fetched command failed to convert and the one fetched
\* after it is the batch of the POST.
C13_Witness ==
    \E c \in 1..Len(cycles) :
        /\ cycles[c].pc = "post"
        /\ Len(FetchedBy(c)) = 2
        /\ Has(FetchedBy(c)[1], "raises")
        /\ Len(cycles[c].commandsData) = 1
        /\ cycles[c].commandsData[1].id = FetchedBy(c)[2].id

\* cycle c returns false in this step
ReturnsFalseStep(c) ==
    /\ c \in 1..Len(cycles')
    /\ cycles'[c].pc = "done" /\ cycles'[c].ret = "false"
    /\ (c \in 1..Len(cycles) => cycles[c].pc # "done")
\* the t-th timer was created by the t-th start; it was cleared when a stop
\* was called while it was the stored handle
ClearedByStop(t) ==
    \E i \in Starts, j \in Stops :
        /\ Cardinality({ k \in Starts : k <= i }) = t
        /\ i < j
        /\ \A k \in Starts : k <= i \/ j < k

\* C15: a cycle that returns false changes neither the timers nor the
\* handle; a timer is active unless stopPeriodicUpdates cleared it, however
\* many cycles failed, and its next tick can invoke postCommandsToTopGG; no
\* cycle sends more than one POST.
C15_FailedCycleKeepsSchedule ==
    /\ [][ \A c \in 1..MaxCycles :
              ReturnsFalseStep(c) =>
                  /\ intervals' = intervals
                  /\ periodicCommandsInterval' = periodicCommandsInterval ]_vars
    /\ [](\A t \in 1..Len(intervals) :
              /\ intervals[t] <=> ~ClearedByStop(t)
              /\ (intervals[t] /\ Len(cycles) < MaxCycles)
                    => ENABLED IntervalTick(t))
    /\ [](\A c \in 1..Len(cycles) : cycles[c].posts <= 1)

\* C15 case: two periodic cycles failed, one at the POST and one at the
\* fetch, and the timer is still active.
C15_Witness ==
    /\ timerCalls = <<"start">>
    /\ intervals = << TRUE >>
    /\ Len(cycles) = 2
    /\ \A c \in 1..2 : cycles[c].origin = "interval" /\ Done(c) /\ cycles[c].ret = "false"
    /\ cycles[1].failure = "post"
    /\ cycles[2].failure = "fetch"

\* C16: after a sequence of start and stop calls that ends with a stop no
\* timer of the instance is active, and at no time more than one is.
C16_StopLeavesNoActiveTimer ==
    /\ (timerCalls # << >> /\ timerCalls[Len(timerCalls)] = "stop") =>
          \A t \in 1..Len(intervals) : ~intervals[t]
    /\ Cardinality({ t \in 1..Len(intervals) : intervals[t] }) <= 1

\* ============================================================= bot claims
SyncInFlight == syncPc \in {"get", "put", "create"}
CyclesInFlight == { c \in 1..Len(cycles) : cycles[c].pc \in {"fetch", "post"} }
PublishingSetUp == cycles # << >> \/ intervals # << >> \/ initialTimeout # "none"

\* C14 as stated: after ready at most one sync or publish operation is in
\* flight: no publish cycle runs during the sync and no publish cycle
\* starts while an earlier one waits on a network call.
C14_AtMostOneOperationInFlight ==
    (IF SyncInFlight THEN 1 ELSE 0) + Cardinality(CyclesInFlight) <= 1

\* C14 amended: no timer or timeout exists and no publish cycle was invoked
\* before syncCommands has returned, so no publish cycle is in flight
\* together with the sync; publish cycles themselves may overlap.
C14_NoPublishBeforeSyncReturned ==
    /\ PublishingSetUp => (syncPc = "done" /\ botPc = "ready")
    /\ SyncInFlight => CyclesInFlight = {}

\* C14 case: the sync returned and the initial publish is waiting for the
\* answer to its POST.
C14_Witness ==
    /\ botPc = "ready"
    /\ syncPc = "done"
    /\ syncRet >= 0
    /\ \E c \in CyclesInFlight :
          cycles[c].origin = "timeout" /\ cycles[c].pc = "post"

\* ====================================================== plain sync claims
GetFailed == \E i \in CallsOf("GET") : restLog[i].status = "error"
PutFailed == \E i \in CallsOf("PUT") : restLog[i].status = "error"
PutSucceeded == \E i \in CallsOf("PUT") : restLog[i].status = "ok"

\* C17: without a desired list the body of the bulk replace is the list
\* just fetched from the same scope, in the same order; a successful sync
\* leaves the scope's command names as they were and returns the length of
\* the platform's answer; a failed fetch or a failed bulk replace returns 0,
\* and after a failed fetch no bulk replace is issued.
C17_PlainSyncResendsFetchedList ==
    /\ \A i \in CallsOf("PUT") :
          /\ restLog[i].body = FetchedList
          /\ restLog[i].route = Route(guildId)
          /\ i = 2 /\ restLog[1].method = "GET" /\ restLog[1].status = "ok"
          /\ restLog[1].route = restLog[i].route
    /\ CallsOf("POST") = {}
    /\ GetFailed => (CallsOf("PUT") = {} /\ syncPc = "done" /\ syncRet = 0)
    /\ PutFailed => (syncPc = "done" /\ syncRet = 0 /\ registered = registeredBefore)
    /\ PutSucceeded =>
          /\ syncPc = "done"
          /\ Names(registered[Route(guildId)]) = Names(FetchedList)
          /\ registered[Route(guildId)] = FetchedList
          /\ syncRet = Len(registered[Route(guildId)])

\* C17 case: a scope holding [launch, help] was fetched and sent back; the
\* sync returned 2.
C17_Witness ==
    /\ syncPc = "done"
    /\ PutSucceeded
    /\ syncRet = 2
    /\ FetchedList[1].name = "launch"
    /\ FetchedList[2].name = "help"
    /\ restLog[2].body = FetchedList

====
